---- MODULE Spec2Model ----
(***************************************************************************)
(* Series grouping and navigation of the Eleventy configuration            *)
(* (src/.eleventy.js): the "series" and "seriesContent" collections and    *)
(* the getSeriesOverview / getPreviousInSeries / getNextInSeries filters.  *)
(*                                                                         *)
(* A content item is a record [id, seriesId, part, tags]; id is the item's *)
(* position in the collection handed over by content loading (two pages    *)
(* are two objects even when their front matter is the same).  A front     *)
(* matter field that may be missing is an option: None when the field is   *)
(* undefined, Some(v) when it holds v.                                     *)
(***************************************************************************)
EXTENDS Integers, Sequences, FiniteSets, TLC

----------------------------------------------------------------------------
(* Bounds of the model *)

\* the largest number of content items in a collection
MaxItems == 2
\* the largest part number an item carries
MaxPart == 1
\* the largest number of pages of the series a reader walks through
MaxWalk == 4

----------------------------------------------------------------------------
(* State *)

VARIABLES
  items,        \* collectionApi.getAll(): the content items, in order
  collections,  \* outcome of the last build: the series and seriesContent collections
  previous,     \* outcome of the build before the last one
  query         \* the last filter call: its arguments and what it returned

vars == <<items, collections, previous, query>>

----------------------------------------------------------------------------
(* Values *)

None == <<>>
Some(x) == <<x>>
IsSome(o) == o # <<>>
Val(o) == o[1]

\* Names every object inherits from Object.prototype: allSeries[name] is a
\* truthy value that is no array for each of them (a function, and the
\* prototype object itself for __proto__).
ObjectPrototypeKeys ==
  {"constructor", "hasOwnProperty", "isPrototypeOf", "propertyIsEnumerable",
   "toLocaleString", "toString", "valueOf", "__defineGetter__",
   "__defineSetter__", "__lookupGetter__", "__lookupSetter__", "__proto__"}

\* Mutant: the filter tests that the seriesId is there (!== undefined).
PresentSeriesId(seriesId) == IsSome(seriesId)

\* JavaScript truthiness of a seriesId: undefined and "" are falsy.
Truthy(seriesId) == IsSome(seriesId) /\ Val(seriesId) # ""

\* (part || 0) of the sort comparator.
PartOrZero(it) == IF IsSome(it.part) THEN Val(it.part) ELSE 0

\* item.data.tags.includes("series"), for tags that are present.
HasSeriesTag(it) == "series" \in Val(it.tags)

\* Outcomes of a call.
TypeError == [kind |-> "TypeError"]
Ok(v) == [kind |-> "ok", value |-> v]
NotBuilt == [kind |-> "none"]

\* const allSeries = {}
EmptyObject == <<>>

----------------------------------------------------------------------------
(* The seriesContent collection: buildGroups *)

\* The filter callback reads item.data.tags.includes on every item whose
\* seriesId is truthy: it throws when that item has no tags.
FilterThrows(allItems) ==
  \E i \in 1..Len(allItems) :
     Truthy(allItems[i].seriesId) /\ ~IsSome(allItems[i].tags)

\* Mutant: the filter forgets the tag test.
RetainedWithoutTagTest(it) == Truthy(it.seriesId)

\* item.data.seriesId && !item.data.tags.includes("series")
Retained(it) == Truthy(it.seriesId) /\ ~HasSeriesTag(it)

FilterSeriesItems(allItems) == SelectSeq(allItems, Retained)

\* Mutant: the group is replaced on every item instead of being pushed to.
RECURSIVE GroupKeepingLast(_, _, _)
GroupKeepingLast(seriesItems, i, allSeries) ==
  IF i > Len(seriesItems) THEN Ok(allSeries)
  ELSE LET item == seriesItems[i]
           seriesId == Val(item.seriesId)
       IN  IF seriesId \in ObjectPrototypeKeys THEN TypeError
           ELSE GroupKeepingLast(seriesItems, i + 1,
                  [k \in DOMAIN allSeries \cup {seriesId} |->
                     IF k = seriesId THEN <<item>> ELSE allSeries[k]])

\* seriesItems.forEach(item => { if (!allSeries[id]) allSeries[id] = [];
\*                               allSeries[id].push(item) })
RECURSIVE GroupBySeriesId(_, _, _)
GroupBySeriesId(seriesItems, i, allSeries) ==
  IF i > Len(seriesItems) THEN Ok(allSeries)
  ELSE LET item == seriesItems[i]
           seriesId == Val(item.seriesId)
       IN  IF seriesId \in DOMAIN allSeries
             THEN GroupBySeriesId(seriesItems, i + 1,
                    [allSeries EXCEPT ![seriesId] = Append(@, item)])
           ELSE IF seriesId \in ObjectPrototypeKeys
             THEN TypeError
           ELSE GroupBySeriesId(seriesItems, i + 1,
                    allSeries @@ (seriesId :> <<item>>))

\* Mutant: an unstable sort, x goes before the members with its own part.
RECURSIVE InsertBeforeEqual(_, _)
InsertBeforeEqual(sorted, x) ==
  IF sorted = <<>> THEN <<x>>
  ELSE IF PartOrZero(x) - PartOrZero(sorted[Len(sorted)]) > 0
    THEN Append(sorted, x)
  ELSE Append(InsertBeforeEqual(SubSeq(sorted, 1, Len(sorted) - 1), x),
              sorted[Len(sorted)])

\* One step of the stable sort: x goes behind every member whose part is not
\* larger than its own.
RECURSIVE InsertByPart(_, _)
InsertByPart(sorted, x) ==
  IF sorted = <<>> THEN <<x>>
  ELSE IF PartOrZero(x) - PartOrZero(sorted[Len(sorted)]) >= 0
    THEN Append(sorted, x)
  ELSE Append(InsertByPart(SubSeq(sorted, 1, Len(sorted) - 1), x),
              sorted[Len(sorted)])

RECURSIVE SortFrom(_, _, _)
SortFrom(seq, i, sorted) ==
  IF i > Len(seq) THEN sorted
  ELSE SortFrom(seq, i + 1, InsertByPart(sorted, seq[i]))

\* Mutant: the groups are left in the order the items were pushed.
LeftAsPushed(seq) == seq

\* allSeries[seriesId].sort((a, b) => (a.data.part || 0) - (b.data.part || 0))
SortByPart(seq) == SortFrom(seq, 1, <<>>)

SortEachSeries(allSeries) ==
  [seriesId \in DOMAIN allSeries |-> SortByPart(allSeries[seriesId])]

\* Mutant: the callback reads the first item of the collection before filtering.
BuildFromFirstItem(allItems, allSeries) ==
  IF allItems = <<>> \/ FilterThrows(allItems) THEN TypeError
  ELSE LET grouped == GroupBySeriesId(FilterSeriesItems(allItems), 1, allSeries)
       IN  IF grouped.kind = "ok" THEN Ok(SortEachSeries(grouped.value))
           ELSE grouped

\* Mutant: a group is opened for the seriesId of every item, members or not.
BuildFromOpenedGroups(allItems, allSeries) ==
  IF FilterThrows(allItems) THEN TypeError
  ELSE LET opened ==
             [k \in {Val(allItems[i].seriesId) :
                       i \in {j \in 1..Len(allItems) : Truthy(allItems[j].seriesId)}}
                     \ ObjectPrototypeKeys |-> <<>>]
           grouped == GroupBySeriesId(FilterSeriesItems(allItems), 1, allSeries @@ opened)
       IN  IF grouped.kind = "ok" THEN Ok(SortEachSeries(grouped.value))
           ELSE grouped

\* The callback of addCollection("seriesContent"), started with allSeries.
BuildFrom(allItems, allSeries) ==
  IF FilterThrows(allItems) THEN TypeError
  ELSE LET grouped == GroupBySeriesId(FilterSeriesItems(allItems), 1, allSeries)
       IN  IF grouped.kind = "ok" THEN Ok(SortEachSeries(grouped.value))
           ELSE grouped

\* Mutant: allSeries is declared outside the callback and outlives a build.
AllSeriesKeptAcrossBuilds ==
  IF collections.kind = "ok" THEN collections.value.seriesContent ELSE EmptyObject

\* const allSeries = {}: a fresh object on every call of the callback.
AllSeriesAtEntry == EmptyObject

buildGroups(allItems) == BuildFrom(allItems, AllSeriesAtEntry)

\* The series collection: collectionApi.getFilteredByTags("series"), the
\* items tagged "series" in collection order (an item without tags is none).
SeriesCollection(allItems) ==
  SelectSeq(allItems, LAMBDA it : IsSome(it.tags) /\ HasSeriesTag(it))

----------------------------------------------------------------------------
(* The navigation filters *)

Found(x) == [kind |-> "item", item |-> x]
Undefined == [kind |-> "undefined"]
Null == [kind |-> "null"]

\* Mutant: findLast, the last element that passes the test.
FindLast(seq, passing) ==
  IF passing = {} THEN Undefined
  ELSE Found(seq[CHOOSE i \in passing : \A j \in passing : i >= j])

\* Array.prototype.find: the first element that passes the test, else undefined.
\* passing holds the indices of seq whose element passes the test.
Find(seq, passing) ==
  IF passing = {} THEN Undefined
  ELSE Found(seq[CHOOSE i \in passing : \A j \in passing : i <= j])

\* The property name obj[seriesId] reads: undefined reads "undefined".
PropertyKey(seriesId) == IF IsSome(seriesId) THEN Val(seriesId) ELSE "undefined"

\* Mutant: the lookup applies the default of the sort, (part || 0), on both sides.
PartIsWithDefault(it, part, delta) ==
  PartOrZero(it) = (IF IsSome(part) THEN Val(part) ELSE 0) + delta

\* item.data.part === n, n being part - 1 or part + 1: never true when either
\* side is undefined (undefined - 1 is NaN).
PartIs(it, part, delta) ==
  IsSome(part) /\ IsSome(it.part) /\ Val(it.part) = Val(part) + delta

\* Mutant: the lookup searches the members of every series.
FindInAnySeries(part, seriesId, colls, delta) ==
  LET seriesContent == colls.seriesContent
      hits == {k \in DOMAIN seriesContent :
                 \E i \in 1..Len(seriesContent[k]) :
                    PartIs(seriesContent[k][i], part, delta)}
  IN  IF hits = {} THEN Undefined
      ELSE LET k == CHOOSE h \in hits : TRUE
           IN  Find(seriesContent[k],
                    {i \in 1..Len(seriesContent[k]) :
                       PartIs(seriesContent[k][i], part, delta)})

\* collections.seriesContent[seriesId], then find over it.
FindInSeries(part, seriesId, colls, delta) ==
  LET key == PropertyKey(seriesId)
      seriesContent == colls.seriesContent
  IN  IF key \in DOMAIN seriesContent
        THEN Find(seriesContent[key],
                  {i \in 1..Len(seriesContent[key]) :
                     PartIs(seriesContent[key][i], part, delta)})
      ELSE IF key \in ObjectPrototypeKeys
        THEN TypeError
      ELSE Null

\* Mutant: the overview is looked up without comparing the seriesId.
FirstOverview(seriesId, colls) ==
  Find(colls.series, 1..Len(colls.series))

\* Mutant: the filter returns undefined at once when it is given no seriesId.
OverviewOfNamedSeries(seriesId, colls) ==
  IF ~IsSome(seriesId) THEN Undefined
  ELSE Find(colls.series,
            {i \in 1..Len(colls.series) : colls.series[i].seriesId = seriesId})

getSeriesOverview(seriesId, colls) ==
  Find(colls.series,
       {i \in 1..Len(colls.series) : colls.series[i].seriesId = seriesId})

\* Mutant: the previous filter compares with part, the - 1 forgotten.
PreviousOfSamePart(part, seriesId, colls) ==
  FindInSeries(part, seriesId, colls, 0)

getPreviousInSeries(part, seriesId, colls) ==
  FindInSeries(part, seriesId, colls, -1)

\* Mutant: the next filter returns the member that follows in the sorted group,
\* the first one with a larger part.
NextByPosition(part, seriesId, colls) ==
  LET key == PropertyKey(seriesId)
      seriesContent == colls.seriesContent
  IN  IF key \in DOMAIN seriesContent
        THEN Find(seriesContent[key],
                  {i \in 1..Len(seriesContent[key]) :
                     /\ IsSome(part) /\ IsSome(seriesContent[key][i].part)
                     /\ Val(seriesContent[key][i].part) > Val(part)})
      ELSE IF key \in ObjectPrototypeKeys
        THEN TypeError
      ELSE Null

\* Mutant: the next filter is a copy of the previous filter, part - 1 included.
NextLooksBack(part, seriesId, colls) ==
  FindInSeries(part, seriesId, colls, -1)

\* Mutant: the next filter adds 2 to the part.
NextSkipsAPart(part, seriesId, colls) ==
  FindInSeries(part, seriesId, colls, 2)

getNextInSeries(part, seriesId, colls) ==
  FindInSeries(part, seriesId, colls, 1)

\* Mutant: the lookup reverses the group it searches (reverse() works in place).
CollectionsReversedByCall(colls) ==
  [series |-> colls.series,
   seriesContent |->
     [k \in DOMAIN colls.seriesContent |->
        [i \in 1..Len(colls.seriesContent[k]) |->
           colls.seriesContent[k][Len(colls.seriesContent[k]) + 1 - i]]]]

\* What a filter call leaves of the collections it is handed: a property read
\* and Array.prototype.find write nothing.
CollectionsAfterCall(colls) == colls

\* Mutant: the callback sorts the collection it is handed (sort() works in place).
InputSortedInPlace(allItems) == SortByPart(allItems)

\* What the seriesContent callback leaves of collectionApi.getAll(): filter
\* returns a new array, and push and sort act on the arrays of allSeries.
InputAfterBuild(allItems) == allItems

----------------------------------------------------------------------------
(* The build as a state machine *)

NoQuery == [op |-> "none", part |-> None, seriesId |-> None, result |-> Undefined]

Parts == {None} \cup {Some(n) : n \in 0..MaxPart}

\* the part arguments of a filter call: every part whose neighbour may exist
QueryParts == {None} \cup {Some(n) : n \in -1..(MaxPart + 1)}

AllSeriesIds ==
  {None, Some(""), Some("galactic-archives"), Some("side-quests"), Some("constructor")}

AllTags == {None, Some({}), Some({"musings"}), Some({"musings", "series"})}

\* Every front matter the content loading may hand over.
AllPages == [seriesId : AllSeriesIds, part : Parts, tags : AllTags]

\* The pages of a site that builds: every page has tags and is tagged "series"
\* or not; a page of a series is numbered or not, whatever its tags (nothing
\* keeps a page tagged "series" from carrying a part). The pages outside every
\* series stand here without a part: no line reads the part of an item that
\* has no seriesId.
SiteSeriesIds == {None, Some("galactic-archives"), Some("side-quests")}

SiteTags == {Some({"musings"}), Some({"musings", "series"})}

SitePages ==
  [seriesId : SiteSeriesIds \ {None}, part : Parts, tags : SiteTags]
    \cup [seriesId : {None}, part : {None}, tags : SiteTags]

\* The seriesId arguments of a filter call: no series, a series of the site or
\* not, and a name that objects inherit.
QuerySeriesIds == SiteSeriesIds \cup {Some("constructor")}

\* The item that content loading makes of a page: its place in the collection
\* tells it from every other item.
ItemAt(i, page) ==
  [id |-> i, seriesId |-> page.seriesId, part |-> page.part, tags |-> page.tags]

\* collectionApi.getAll() for the pages loaded, in their order.
ItemsOf(loaded) == [i \in 1..Len(loaded) |-> ItemAt(i, loaded[i])]

\* Content loading hands over at most MaxItems pages drawn from pages.
InitFrom(pages) ==
  /\ \E n \in 0..MaxItems : \E loaded \in [1..n -> pages] :
       items = ItemsOf(loaded)
  /\ collections = NotBuilt
  /\ previous = NotBuilt
  /\ query = NoQuery

\* One build: Eleventy calls the collection callbacks on the loaded items.
BuildCollections(allItems) ==
  LET seriesContent == buildGroups(allItems)
  IN  IF seriesContent.kind = "ok"
        THEN Ok([series |-> SeriesCollection(allItems),
                 seriesContent |-> seriesContent.value])
      ELSE seriesContent

Build ==
  /\ collections' = BuildCollections(items)
  /\ previous' = collections
  /\ query' = NoQuery
  /\ items' = InputAfterBuild(items)

\* A template calls a filter on the collections of a build that succeeded.
GetSeriesOverviewCall(seriesId) ==
  /\ collections.kind = "ok"
  /\ query' = [op |-> "getSeriesOverview", part |-> None, seriesId |-> seriesId,
               result |-> getSeriesOverview(seriesId, collections.value)]
  /\ collections' = Ok(CollectionsAfterCall(collections.value))
  /\ UNCHANGED <<items, previous>>

GetPreviousInSeriesCall(part, seriesId) ==
  /\ collections.kind = "ok"
  /\ query' = [op |-> "getPreviousInSeries", part |-> part, seriesId |-> seriesId,
               result |-> getPreviousInSeries(part, seriesId, collections.value)]
  /\ collections' = Ok(CollectionsAfterCall(collections.value))
  /\ UNCHANGED <<items, previous>>

GetNextInSeriesCall(part, seriesId) ==
  /\ collections.kind = "ok"
  /\ query' = [op |-> "getNextInSeries", part |-> part, seriesId |-> seriesId,
               result |-> getNextInSeries(part, seriesId, collections.value)]
  /\ collections' = Ok(CollectionsAfterCall(collections.value))
  /\ UNCHANGED <<items, previous>>

CallGetSeriesOverview ==
  \E seriesId \in QuerySeriesIds : GetSeriesOverviewCall(seriesId)

CallGetPreviousInSeries ==
  \E part \in QueryParts, seriesId \in QuerySeriesIds :
     GetPreviousInSeriesCall(part, seriesId)

CallGetNextInSeries ==
  \E part \in QueryParts, seriesId \in QuerySeriesIds :
     GetNextInSeriesCall(part, seriesId)

\* The site's pages, built and queried.
Init == InitFrom(SitePages)

Next ==
  \/ Build
  \/ CallGetSeriesOverview
  \/ CallGetPreviousInSeries
  \/ CallGetNextInSeries

Spec == Init /\ [][Next]_vars

\* Every front matter, built and built again.
BuildInit == InitFrom(AllPages)

BuildNext == Build

BuildSpec == BuildInit /\ [][BuildNext]_vars

----------------------------------------------------------------------------
(* The worked examples: the documented scenario and this repository's pages *)

GalacticArchives == "galactic-archives"

\* the largest part of the repository's posts
LastPart == 12

Page(seriesId, part, tags) == [seriesId |-> seriesId, part |-> part, tags |-> tags]

\* A post of the series as the repository writes it.
Post(part) == Page(Some(GalacticArchives), Some(part), Some({"musings"}))

\* The overview page of the series: tags musings and series, no part.
OverviewPage == Page(Some(GalacticArchives), None, Some({"musings", "series"}))

\* Scenario 1 as documented: intro and setup carry no tags.
ScenarioPages ==
  << Page(Some(GalacticArchives), Some(0), None),
     Page(Some(GalacticArchives), Some(1), None),
     Page(Some(GalacticArchives), None, Some({"series"})) >>

\* Scenario 1 with intro and setup carrying an empty tag list.
ScenarioPagesTagged ==
  << Page(Some(GalacticArchives), Some(0), Some({})),
     Page(Some(GalacticArchives), Some(1), Some({})),
     Page(Some(GalacticArchives), None, Some({"series"})) >>

\* The pages of this repository, by date: the posts of the series (none has
\* part 4 or part 9; part 7 is dated first), the overview page, two posts
\* outside the series and the resume, which has no tags.
RepositoryPages ==
  << Post(0), Post(7), Post(1), Post(2), Post(3), Post(5), Post(6),
     OverviewPage, Post(8),
     Page(None, None, Some({"angular, datasource, sorting, material"})),
     Page(None, None, Some({"posts"})),
     Post(10), Post(11), Post(LastPart),
     Page(None, None, None) >>

ExamplePages == {ScenarioPages, ScenarioPagesTagged, RepositoryPages}

ExampleInit ==
  /\ \E loaded \in ExamplePages : items = ItemsOf(loaded)
  /\ collections = NotBuilt
  /\ previous = NotBuilt
  /\ query = NoQuery

ExampleParts == {None} \cup {Some(n) : n \in -1..(LastPart + 1)}

ExampleSeriesIds ==
  {None, Some(GalacticArchives), Some("unknown-series"), Some("constructor"),
   Some("hasOwnProperty")}

ExampleGetSeriesOverview ==
  \E seriesId \in ExampleSeriesIds : GetSeriesOverviewCall(seriesId)

ExampleGetPreviousInSeries ==
  \E part \in ExampleParts, seriesId \in ExampleSeriesIds :
     GetPreviousInSeriesCall(part, seriesId)

ExampleGetNextInSeries ==
  \E part \in ExampleParts, seriesId \in ExampleSeriesIds :
     GetNextInSeriesCall(part, seriesId)

ExampleNext ==
  \/ Build
  \/ ExampleGetSeriesOverview
  \/ ExampleGetPreviousInSeries
  \/ ExampleGetNextInSeries

ExampleSpec == ExampleInit /\ [][ExampleNext]_vars

----------------------------------------------------------------------------
(* Builds of changing content: the watch mode builds again after an edit *)

\* Posts of two series, enough for a build to lose a key or a member.
WatchedPages ==
  { Page(Some(GalacticArchives), Some(0), Some({"musings"})),
    Page(Some(GalacticArchives), Some(1), Some({"musings"})),
    Page(Some("side-quests"), Some(0), Some({"musings"})) }

\* The content is edited: the next build is handed another collection.
ContentEdited ==
  /\ \E n \in 0..MaxItems : \E loaded \in [1..n -> WatchedPages] :
       items' = ItemsOf(loaded)
  /\ items' # items
  /\ UNCHANGED <<collections, previous, query>>

WatchInit == InitFrom(WatchedPages)

WatchNext == Build \/ ContentEdited

WatchSpec == WatchInit /\ [][WatchNext]_vars

----------------------------------------------------------------------------
(* A reader walks a series: the next link of a page is followed to its end *)

\* Posts of the series, numbered from 0.
WalkedPages == {Post(n) : n \in 0..(MaxWalk - 1)}

WalkInit ==
  /\ \E n \in 0..MaxWalk : \E loaded \in [1..n -> WalkedPages] :
       items = ItemsOf(loaded)
  /\ collections = NotBuilt
  /\ previous = NotBuilt
  /\ query = NoQuery

\* The site is built once, then read.
FirstBuild == collections.kind = "none" /\ Build

\* The page of a member with part 0 is rendered: its next link is
\* getNextInSeries of the page's own part and seriesId.
StartWalk ==
  /\ collections.kind = "ok"
  /\ query.op = "none"
  /\ \E k \in DOMAIN collections.value.seriesContent :
       \E i \in 1..Len(collections.value.seriesContent[k]) :
          /\ collections.value.seriesContent[k][i].part = Some(0)
          /\ GetNextInSeriesCall(collections.value.seriesContent[k][i].part,
                                 collections.value.seriesContent[k][i].seriesId)

\* The page the last next link led to is rendered: its own next link.
FollowNext ==
  /\ query.op = "getNextInSeries"
  /\ query.result.kind = "item"
  /\ GetNextInSeriesCall(query.result.item.part, query.result.item.seriesId)

WalkNext == FirstBuild \/ StartWalk \/ FollowNext

\* The reader goes on while the page read has a next link.
WalkSpec == WalkInit /\ [][WalkNext]_vars /\ WF_vars(FollowNext)

----------------------------------------------------------------------------
(* Properties *)

Built == collections.kind = "ok"

\* The groups of the last build, when it succeeded.
Groups == collections.value.seriesContent

Tagged(it) == IsSome(it.tags) /\ "series" \in Val(it.tags)

Absent(result) == result.kind \in {"null", "undefined"}

\* How often item it occurs in seq.
Occurrences(seq, it) == Cardinality({j \in 1..Len(seq) : seq[j] = it})

\* C1: no item whose tag set contains "series" appears in the member sequence
\* of any group returned by buildGroups, whatever its seriesId and part are.
C1_NoOverviewInGroups ==
  Built => \A k \in DOMAIN Groups : \A i \in 1..Len(Groups[k]) : ~Tagged(Groups[k][i])

\* A build that met an item tagged "series" with a seriesId and a part, next
\* to a member of that very series.
C1_Witness ==
  /\ Built
  /\ \E i, j \in 1..Len(items) :
       /\ Tagged(items[i]) /\ Truthy(items[i].seriesId) /\ IsSome(items[i].part)
       /\ items[j].seriesId = items[i].seriesId
       /\ Val(items[j].seriesId) \in DOMAIN Groups
       /\ Occurrences(Groups[Val(items[j].seriesId)], items[j]) = 1

\* C2: in every group returned by buildGroups, adjacent members a, b (a before
\* b) have partOrZero(a) <= partOrZero(b), a missing part counting as 0.
C2_GroupsSortedByPart ==
  Built =>
    \A k \in DOMAIN Groups : \A i \in 1..(Len(Groups[k]) - 1) :
      (IF IsSome(Groups[k][i].part) THEN Val(Groups[k][i].part) ELSE 0)
        <= (IF IsSome(Groups[k][i + 1].part) THEN Val(Groups[k][i + 1].part) ELSE 0)

\* A build whose input held two members of one series, the later part first.
C2_Witness ==
  /\ Built
  /\ Len(items) = 2
  /\ \E k \in DOMAIN Groups :
       /\ Len(Groups[k]) = 2
       /\ IsSome(items[1].part) /\ IsSome(items[2].part)
       /\ Val(items[1].part) > Val(items[2].part)
       /\ Groups[k] = <<items[2], items[1]>>

\* C6: buildGroups rejects no input: for every collection of content items
\* (optional seriesId, optional part, tag set possibly missing or empty) it
\* completes and returns a mapping, never raising an error.
C6_BuildNeverRaises == collections.kind # "TypeError"

\* C8: calling buildGroups twice on the same collection yields structurally
\* equal mappings: the same keys and, per key, the same members in the same order.
C8_RebuildYieldsEqualGroups ==
  (collections.kind # "none" /\ previous.kind # "none") =>
    /\ collections.kind = previous.kind
    /\ Built => Groups = previous.value.seriesContent

\* A second build of a collection that has a group of two members.
C8_Witness ==
  /\ Built /\ previous.kind = "ok"
  /\ \E k \in DOMAIN Groups : Len(Groups[k]) = 2

\* C9 as stated: buildGroups retains exactly the items that have a seriesId and
\* are not tagged "series"; each retained item appears exactly once in the
\* group keyed by its own seriesId and in no other group, and no other item
\* appears in any group.
C9_PartitionOfItemsWithSeriesId ==
  Built =>
    \A i \in 1..Len(items) :
      IF IsSome(items[i].seriesId) /\ ~Tagged(items[i])
        THEN /\ Val(items[i].seriesId) \in DOMAIN Groups
             /\ \A k \in DOMAIN Groups :
                  Occurrences(Groups[k], items[i])
                    = (IF k = Val(items[i].seriesId) THEN 1 ELSE 0)
        ELSE \A k \in DOMAIN Groups : Occurrences(Groups[k], items[i]) = 0

\* C9 amended: buildGroups retains exactly the items whose seriesId is present
\* and not the empty string and that are not tagged "series"; each retained
\* item appears exactly once in the group keyed by its own seriesId and in no
\* other group, and every member of every group is a retained item.
C9_PartitionOfRetainedItems ==
  Built =>
    /\ \A i \in 1..Len(items) :
         IF IsSome(items[i].seriesId) /\ Val(items[i].seriesId) # ""
              /\ ~Tagged(items[i])
           THEN /\ Val(items[i].seriesId) \in DOMAIN Groups
                /\ \A k \in DOMAIN Groups :
                     Occurrences(Groups[k], items[i])
                       = (IF k = Val(items[i].seriesId) THEN 1 ELSE 0)
           ELSE \A k \in DOMAIN Groups : Occurrences(Groups[k], items[i]) = 0
    /\ \A k \in DOMAIN Groups : \A j \in 1..Len(Groups[k]) :
         \E i \in 1..Len(items) : items[i] = Groups[k][j]

\* A build that put one item into the group of its series and left out an
\* untagged item whose seriesId is the empty string.
C9_Witness ==
  /\ Built
  /\ \E i, j \in 1..Len(items) :
       /\ Truthy(items[i].seriesId) /\ ~Tagged(items[i])
       /\ Groups[Val(items[i].seriesId)] = <<items[i]>>
       /\ items[j].seriesId = Some("") /\ ~Tagged(items[j])
       /\ "" \notin DOMAIN Groups

\* C10: an empty collection of content items makes buildGroups return the
\* empty mapping.
C10_EmptyInputEmptyMapping ==
  (items = <<>> /\ collections.kind # "none") => (Built /\ DOMAIN Groups = {})

\* The empty collection, built.
C10_Witness == items = <<>> /\ Built /\ DOMAIN Groups = {}

\* The members of groups[s] whose part is n; none when s is no key of groups.
MembersWithPart(seriesId, n) ==
  IF IsSome(seriesId) /\ Val(seriesId) \in DOMAIN Groups
    THEN {i \in 1..Len(Groups[Val(seriesId)]) :
            /\ IsSome(Groups[Val(seriesId)][i].part)
            /\ Val(Groups[Val(seriesId)][i].part) = n}
    ELSE {}

\* The result is the member of groups[s] with part n, and absent when there is
\* none or s is no key of groups.
IsMemberWithPart(result, seriesId, n) ==
  IF MembersWithPart(seriesId, n) = {}
    THEN Absent(result)
    ELSE /\ result.kind = "item"
         /\ \E i \in MembersWithPart(seriesId, n) :
              result.item = Groups[Val(seriesId)][i]

\* C3: getPreviousInSeries(p, s, groups) returns the unique member of groups[s]
\* whose part equals p - 1, and returns absent when no member of groups[s] has
\* part p - 1 or when s is not a key of groups.
C3_PreviousIsMemberBefore ==
  (query.op = "getPreviousInSeries" /\ IsSome(query.part)) =>
    IsMemberWithPart(query.result, query.seriesId, Val(query.part) - 1)

\* C4: getNextInSeries(p, s, groups) returns the unique member of groups[s]
\* whose part equals p + 1, and returns absent when no member of groups[s] has
\* part p + 1 or when s is not a key of groups.
C4_NextIsMemberAfter ==
  (query.op = "getNextInSeries" /\ IsSome(query.part)) =>
    IsMemberWithPart(query.result, query.seriesId, Val(query.part) + 1)

\* C5: getSeriesOverview(s, overviews) returns an item whose seriesId equals s,
\* or absent when no overview item has seriesId s; of several overview items
\* with seriesId s it returns the one that comes first in the supplied order.
C5_OverviewIsFirstOfSeries ==
  query.op = "getSeriesOverview" =>
    LET overviews == collections.value.series
    IN  IF \A i \in 1..Len(overviews) : overviews[i].seriesId # query.seriesId
          THEN Absent(query.result)
          ELSE /\ query.result.kind = "item"
               /\ \E i \in 1..Len(overviews) :
                    /\ query.result.item = overviews[i]
                    /\ overviews[i].seriesId = query.seriesId
                    /\ \A j \in 1..(i - 1) : overviews[j].seriesId # query.seriesId

\* A call that found the overview of a series behind the overview of another
\* series, and a call that had two overviews of the series to choose from.
C5_Witness ==
  /\ query.op = "getSeriesOverview"
  /\ Len(collections.value.series) = 2
  /\ query.result.kind = "item"
  /\ \/ /\ collections.value.series[1].seriesId # query.seriesId
        /\ query.result.item = collections.value.series[2]
     \/ /\ collections.value.series[2].seriesId = query.seriesId
        /\ query.result.item = collections.value.series[1]

\* C7: every not-found case of the three queries resolves to an absent value
\* and never to an error: for every part, every seriesId (one that is no key
\* of groups included) and every input, each query returns an item or absent
\* without raising.
C7_QueriesNeverRaise ==
  query.op # "none" => (query.result.kind = "item" \/ Absent(query.result))

\* C11: buildGroups has no side effects: after it returns, the input
\* collection has the same items in the same order and every item's seriesId,
\* part and tags are unchanged; the sort reorders only the new group sequences.
C11_BuildLeavesInputAlone == [][Build => items' = items]_vars

\* A build whose sort turned a group around while the input kept its order.
C11_Witness ==
  /\ Built
  /\ Len(items) = 2 /\ items[1].id = 1 /\ items[2].id = 2
  /\ PartOrZero(items[1]) > PartOrZero(items[2])
  /\ \E k \in DOMAIN Groups : Groups[k] = <<items[2], items[1]>>

\* C12: spec scenario 1: for intro {galactic-archives, part 0}, setup
\* {galactic-archives, part 1}, both without a tag set, and overview
\* {galactic-archives, tags [series]}, buildGroups returns a mapping whose only
\* key is galactic-archives, with member sequence [intro, setup].
C12_ScenarioOneGroups ==
  (items = ItemsOf(ScenarioPages) /\ collections.kind # "none") =>
    /\ Built
    /\ Groups = (GalacticArchives :> <<items[1], items[2]>>)

\* C13: spec scenarios 2, 3 and 5: with groups = {galactic-archives: [intro
\* (part 0), setup (part 1)]}, getNextInSeries(0, galactic-archives) returns
\* setup, getPreviousInSeries(0, galactic-archives) returns absent and
\* getNextInSeries(5, unknown-series) returns absent.
C13_ScenarioNavigation ==
  (items = ItemsOf(ScenarioPagesTagged) /\ Built) =>
    /\ Groups = (GalacticArchives :> <<items[1], items[2]>>)
    /\ (/\ query.op = "getNextInSeries" /\ query.part = Some(0)
        /\ query.seriesId = Some(GalacticArchives))
         => query.result = Found(items[2])
    /\ (/\ query.op = "getPreviousInSeries" /\ query.part = Some(0)
        /\ query.seriesId = Some(GalacticArchives))
         => Absent(query.result)
    /\ (/\ query.op = "getNextInSeries" /\ query.part = Some(5)
        /\ query.seriesId = Some("unknown-series"))
         => Absent(query.result)

\* The call of scenario 2 on the groups of scenario 1, answered with setup.
C13_Witness ==
  /\ items = ItemsOf(ScenarioPagesTagged) /\ Built
  /\ query.op = "getNextInSeries" /\ query.part = Some(0)
  /\ query.seriesId = Some(GalacticArchives)
  /\ query.result.kind = "item" /\ query.result.item.part = Some(1)

\* The members of groups[s] that count as part 0: part 0 or no part.
MembersAtZero(seriesId) ==
  {i \in 1..Len(Groups[Val(seriesId)]) :
     (IF IsSome(Groups[Val(seriesId)][i].part)
        THEN Val(Groups[Val(seriesId)][i].part) ELSE 0) = 0}

\* C14: the default part 0 of an item lacking a part is its position for
\* navigation as for sorting: in a group whose only position-0 member has no
\* part field, getPreviousInSeries(1, s, groups) and getNextInSeries(-1, s,
\* groups) return that member.
C14_DefaultPartNavigable ==
  (/\ \/ query.op = "getPreviousInSeries" /\ query.part = Some(1)
      \/ query.op = "getNextInSeries" /\ query.part = Some(-1)
   /\ IsSome(query.seriesId) /\ Val(query.seriesId) \in DOMAIN Groups) =>
     \A i \in MembersAtZero(query.seriesId) :
       (/\ MembersAtZero(query.seriesId) = {i}
        /\ Groups[Val(query.seriesId)][i].part = None)
         => query.result = Found(Groups[Val(query.seriesId)][i])

\* C15: when several retained items of one series have the same part (a
\* missing part colliding with part 0 included), buildGroups keeps all of
\* them and the sort is stable: items of equal effective part stand in the
\* group in the order they have in the input collection.
C15_EqualPartsKeepInputOrder ==
  Built =>
    /\ \A i \in 1..Len(items) :
         (/\ IsSome(items[i].seriesId) /\ Val(items[i].seriesId) # ""
          /\ ~Tagged(items[i]))
           => /\ Val(items[i].seriesId) \in DOMAIN Groups
              /\ Occurrences(Groups[Val(items[i].seriesId)], items[i]) = 1
    /\ \A k \in DOMAIN Groups : \A i, j \in 1..Len(Groups[k]) :
         (/\ i < j
          /\ (IF IsSome(Groups[k][i].part) THEN Val(Groups[k][i].part) ELSE 0)
               = (IF IsSome(Groups[k][j].part) THEN Val(Groups[k][j].part) ELSE 0))
           => Groups[k][i].id < Groups[k][j].id

\* A group of an item without part and an item of part 0, or of two items of
\* one part, in input order.
C15_Witness ==
  /\ Built
  /\ Len(items) = 2
  /\ \/ items[1].part = None /\ items[2].part = Some(0)
     \/ items[1].part = Some(0) /\ items[2].part = None
     \/ items[1].part = Some(1) /\ items[2].part = Some(1)
  /\ \E k \in DOMAIN Groups : Groups[k] = <<items[1], items[2]>>

\* C16: gapped part values are tolerated: for a group whose parts have a gap
\* (7, 8, 10, 11 in the repository's posts, none has part 9) buildGroups keeps
\* every member, in ascending order, and getNextInSeries at the part before
\* the gap and getPreviousInSeries at the part after it return absent without
\* error although members lie beyond the gap.
C16_GapsTolerated ==
  Built =>
    /\ \A i \in 1..Len(items) :
         (/\ IsSome(items[i].seriesId) /\ Val(items[i].seriesId) # ""
          /\ ~Tagged(items[i]))
           => /\ Val(items[i].seriesId) \in DOMAIN Groups
              /\ Occurrences(Groups[Val(items[i].seriesId)], items[i]) = 1
    /\ \A k \in DOMAIN Groups : \A i \in 1..(Len(Groups[k]) - 1) :
         (IF IsSome(Groups[k][i].part) THEN Val(Groups[k][i].part) ELSE 0)
           <= (IF IsSome(Groups[k][i + 1].part) THEN Val(Groups[k][i + 1].part) ELSE 0)
    /\ (/\ query.op = "getNextInSeries" /\ IsSome(query.part)
        /\ IsSome(query.seriesId) /\ Val(query.seriesId) \in DOMAIN Groups
        /\ MembersWithPart(query.seriesId, Val(query.part) + 1) = {})
         => Absent(query.result)
    /\ (/\ query.op = "getPreviousInSeries" /\ IsSome(query.part)
        /\ IsSome(query.seriesId) /\ Val(query.seriesId) \in DOMAIN Groups
        /\ MembersWithPart(query.seriesId, Val(query.part) - 1) = {})
         => Absent(query.result)

\* The repository's series, built, asked for the post after part 8: absent,
\* although the posts of parts 10 and 11 are members.
C16_Witness ==
  /\ items = ItemsOf(RepositoryPages) /\ Built
  /\ Len(Groups[GalacticArchives]) = 11
  /\ MembersWithPart(Some(GalacticArchives), 7) # {}
  /\ MembersWithPart(Some(GalacticArchives), 8) # {}
  /\ MembersWithPart(Some(GalacticArchives), 9) = {}
  /\ MembersWithPart(Some(GalacticArchives), 10) # {}
  /\ MembersWithPart(Some(GalacticArchives), 11) # {}
  /\ query.op = "getNextInSeries" /\ query.part = Some(8)
  /\ query.seriesId = Some(GalacticArchives)
  /\ Absent(query.result)

\* What a call returns on the collections of a fresh build of the items.
ResultOnFreshBuild(q) ==
  LET fresh == BuildCollections(items).value
  IN  IF q.op = "getSeriesOverview" THEN getSeriesOverview(q.seriesId, fresh)
      ELSE IF q.op = "getPreviousInSeries"
        THEN getPreviousInSeries(q.part, q.seriesId, fresh)
      ELSE getNextInSeries(q.part, q.seriesId, fresh)

\* C17: the groups mapping is immutable once built: any sequence of
\* getSeriesOverview, getPreviousInSeries and getNextInSeries calls leaves the
\* groups mapping and the overview collection unchanged, so the result of a
\* call depends only on its arguments and not on the calls before it.
C17_CallsLeaveCollectionsAlone ==
  /\ [][query'.op # "none" => (collections' = collections /\ items' = items)]_vars
  /\ [](query.op # "none" => query.result = ResultOnFreshBuild(query))

\* A call answered with the second member of a group of two.
C17_Witness ==
  /\ Built
  /\ query.op = "getNextInSeries" /\ query.result.kind = "item"
  /\ \E k \in DOMAIN Groups :
       Len(Groups[k]) = 2 /\ query.result.item = Groups[k][2]

\* The indices of the items a build keeps for series k.
KeptFor(k) ==
  {i \in 1..Len(items) :
     /\ IsSome(items[i].seriesId) /\ Val(items[i].seriesId) = k /\ k # ""
     /\ ~Tagged(items[i])}

\* The mapping holds the kept items of the collection built, each once, under
\* its own seriesId, and nothing else.
GroupsOfItemsAlone(groups) ==
  /\ DOMAIN groups = {k \in {Val(items[i].seriesId) :
                               i \in {j \in 1..Len(items) : IsSome(items[j].seriesId)}} :
                        KeptFor(k) # {}}
  /\ \A k \in DOMAIN groups :
       /\ Len(groups[k]) = Cardinality(KeptFor(k))
       /\ \A i \in KeptFor(k) : Occurrences(groups[k], items[i]) = 1

\* C18: the groups mapping is rebuilt in full on every build and carries
\* nothing over: after any sequence of builds of possibly different
\* collections, the mapping of the latest build is that of its own input
\* alone; no key and no member of an earlier input survives.
C18_BuildCarriesNothingOver ==
  [][(Build /\ collections'.kind = "ok") =>
       GroupsOfItemsAlone(collections'.value.seriesContent)]_vars

\* A build after an edit that took the last member of a series away.
C18_Witness ==
  /\ Built /\ previous.kind = "ok"
  /\ DOMAIN Groups # {}
  /\ \E k \in DOMAIN previous.value.seriesContent : k \notin DOMAIN Groups

\* C19: the key set of the mapping returned by buildGroups is exactly the set
\* of seriesId values of the retained items, and every group is non-empty.
C19_KeysAreSeriesOfRetained ==
  Built =>
    /\ DOMAIN Groups =
         {Val(items[i].seriesId) :
            i \in {j \in 1..Len(items) :
                     /\ IsSome(items[j].seriesId) /\ Val(items[j].seriesId) # ""
                     /\ ~Tagged(items[j])}}
    /\ \A k \in DOMAIN Groups : Len(Groups[k]) >= 1

\* A build of a member of one series and the overview page of another: one key.
C19_Witness ==
  /\ Built
  /\ Cardinality(DOMAIN Groups) = 1
  /\ \E i \in 1..Len(items) :
       /\ Tagged(items[i]) /\ Truthy(items[i].seriesId)
       /\ Val(items[i].seriesId) \notin DOMAIN Groups
       /\ Val(items[i].seriesId) \notin ObjectPrototypeKeys

ExplicitDistinctParts(group) ==
  /\ \A i \in 1..Len(group) : IsSome(group[i].part)
  /\ \A i, j \in 1..Len(group) : group[i].part = group[j].part => i = j

\* C21: previous and next are inverse on groups whose members all have
\* explicit, pairwise distinct parts: when member y has part p and
\* getNextInSeries(p, s, groups) returns x, getPreviousInSeries(x.part, s,
\* groups) returns y; and when getPreviousInSeries(p, s, groups) returns x,
\* getNextInSeries(x.part, s, groups) returns y.
C21_PreviousAndNextAreInverse ==
  (/\ query.op \in {"getPreviousInSeries", "getNextInSeries"}
   /\ query.result.kind = "item"
   /\ IsSome(query.part)
   /\ IsSome(query.seriesId) /\ Val(query.seriesId) \in DOMAIN Groups
   /\ ExplicitDistinctParts(Groups[Val(query.seriesId)])) =>
     \A i \in MembersWithPart(query.seriesId, Val(query.part)) :
       (IF query.op = "getNextInSeries"
          THEN getPreviousInSeries(query.result.item.part, query.seriesId,
                                   collections.value)
          ELSE getNextInSeries(query.result.item.part, query.seriesId,
                               collections.value))
         = Found(Groups[Val(query.seriesId)][i])

\* The member after part 0 was asked for in a group of parts 0 and 1 and
\* found: the member before it is the one of part 0.
C21_Witness ==
  /\ Built
  /\ query.op = "getNextInSeries" /\ query.part = Some(0)
  /\ query.result.kind = "item" /\ query.result.item.part = Some(1)
  /\ Len(Groups[Val(query.seriesId)]) = 2
  /\ ExplicitDistinctParts(Groups[Val(query.seriesId)])
  /\ MembersWithPart(query.seriesId, 0) # {}

\* The group has n members with the parts 0, 1, ..., n - 1, each once.
PartsFromZero(group) ==
  /\ \A i \in 1..Len(group) : IsSome(group[i].part)
  /\ {Val(group[i].part) : i \in 1..Len(group)} = 0..(Len(group) - 1)
  /\ \A i, j \in 1..Len(group) : group[i].part = group[j].part => i = j

\* The place in group of the page a walk stands on: the first place before
\* any link is followed, then the place of the member the last link led to.
PlaceInWalk(group) ==
  IF query.op = "none" THEN 1
  ELSE CHOOSE i \in 1..Len(group) : group[i] = query.result.item

\* C22: in a group of n members with explicit parts 0, 1, ..., n-1, starting
\* at the part-0 member and repeatedly following getNextInSeries visits every
\* member exactly once in the group's sorted order (each step leads from the
\* member at one place of the group to the member at the next place) and
\* reaches absent after exactly n-1 successful steps (the step from the last
\* place, and no other, returns absent); the walk always terminates.
C22_WalkVisitsGroupInOrder ==
  /\ [][(/\ query'.op = "getNextInSeries"
          /\ PartsFromZero(Groups[Val(query'.seriesId)])) =>
           LET group == Groups[Val(query'.seriesId)]
           IN  /\ group[1].part = Some(0)
               /\ query'.part = group[PlaceInWalk(group)].part
               /\ query'.result =
                    (IF PlaceInWalk(group) < Len(group)
                       THEN Found(group[PlaceInWalk(group) + 1])
                       ELSE Undefined)]_vars
  /\ (query.op = "getNextInSeries") ~> (Absent(query.result))

\* A walk through a group of at least three members, supplied out of order,
\* that has come to its end on the last member.
C22_Witness ==
  /\ Built
  /\ query.op = "getNextInSeries" /\ Absent(query.result)
  /\ LET group == Groups[Val(query.seriesId)]
     IN  /\ Len(group) >= 3
         /\ PartsFromZero(group)
         /\ query.part = group[Len(group)].part
         /\ items[1].part # Some(0)

\* The part getPreviousInSeries or getNextInSeries looks for.
RequestedPart(q) ==
  IF q.op = "getPreviousInSeries" THEN Val(q.part) - 1 ELSE Val(q.part) + 1

\* The items of the input collection that are members of series s with part n.
SuppliedWithPart(seriesId, n) ==
  {i \in 1..Len(items) :
     /\ items[i].seriesId = seriesId /\ ~Tagged(items[i])
     /\ items[i].part = Some(n)}

\* C23: when more than one member of groups[s] has the requested part (p - 1
\* or p + 1), getPreviousInSeries / getNextInSeries return the matching member
\* that comes first in the group's sequence, which for groups built by
\* buildGroups is the matching item supplied earliest in the input collection.
C23_FirstOfEqualPartsReturned ==
  (/\ query.op \in {"getPreviousInSeries", "getNextInSeries"}
   /\ IsSome(query.part)
   /\ Cardinality(MembersWithPart(query.seriesId, RequestedPart(query))) > 1) =>
     LET group == Groups[Val(query.seriesId)]
         matching == MembersWithPart(query.seriesId, RequestedPart(query))
         supplied == SuppliedWithPart(query.seriesId, RequestedPart(query))
     IN  /\ query.result.kind = "item"
         /\ \E i \in matching :
              /\ query.result.item = group[i]
              /\ \A j \in matching : i <= j
         /\ \E i \in supplied :
              /\ query.result.item = items[i]
              /\ \A j \in supplied : i <= j

\* A call that had two members of the requested part to choose from and
\* returned the one supplied first.
C23_Witness ==
  /\ Built
  /\ query.op \in {"getPreviousInSeries", "getNextInSeries"}
  /\ IsSome(query.part)
  /\ Cardinality(MembersWithPart(query.seriesId, RequestedPart(query))) = 2
  /\ query.result = Found(items[1])

\* The retained items of each series have pairwise distinct effective parts,
\* a missing part counting as 0.
DistinctEffectiveParts ==
  \A i, j \in 1..Len(items) :
    (/\ i # j
     /\ IsSome(items[i].seriesId) /\ Val(items[i].seriesId) # ""
     /\ ~Tagged(items[i]) /\ ~Tagged(items[j])
     /\ items[i].seriesId = items[j].seriesId)
      => (IF IsSome(items[i].part) THEN Val(items[i].part) ELSE 0)
           # (IF IsSome(items[j].part) THEN Val(items[j].part) ELSE 0)

\* The items of the collection, supplied in the order order gives.
Supplied(order) == [i \in 1..Len(items) |-> items[order[i]]]

\* C24: for input collections in which the retained items of each series have
\* pairwise distinct effective parts, the mapping returned by buildGroups does
\* not depend on the order in which the items are supplied: every permutation
\* of the input yields the same member sequence for every key.
C24_SupplyOrderIrrelevant ==
  (Built /\ DistinctEffectiveParts) =>
    \A order \in Permutations(1..Len(items)) :
      buildGroups(Supplied(order)) = Ok(Groups)

\* A build of two members of one series, one without a part behind one with
\* part 1: supplied the other way round they are pushed in the other order.
C24_Witness ==
  /\ Built /\ DistinctEffectiveParts
  /\ Len(items) = 2
  /\ items[1].part = Some(1) /\ items[2].part = None
  /\ \E k \in DOMAIN Groups : Groups[k] = <<items[2], items[1]>>

\* C25: the navigation lookups compare the raw part field by strict equality
\* and apply no default: a member that has no part field is never returned by
\* getPreviousInSeries or getNextInSeries, whatever integer p is asked for,
\* and a call made with an absent part on the group of a series returns absent,
\* also when the group has a member with part 1.
C25_LookupsApplyNoDefault ==
  query.op \in {"getPreviousInSeries", "getNextInSeries"} =>
    /\ query.result.kind = "item" => IsSome(query.result.item.part)
    /\ (/\ query.part = None
        /\ IsSome(query.seriesId) /\ Val(query.seriesId) \in DOMAIN Groups)
         => Absent(query.result)

\* The next member was asked for without a part, in a group of a member
\* without part and a member with part 1: absent.
C25_Witness ==
  /\ Built
  /\ query.op = "getNextInSeries" /\ query.part = None
  /\ IsSome(query.seriesId) /\ Val(query.seriesId) \in DOMAIN Groups
  /\ Len(Groups[Val(query.seriesId)]) = 2
  /\ Groups[Val(query.seriesId)][1].part = None
  /\ Groups[Val(query.seriesId)][2].part = Some(1)
  /\ Absent(query.result)

\* C26: getSeriesOverview matches on the raw seriesId field by strict
\* equality: called with an absent seriesId (a page that belongs to no series)
\* while the overview collection contains an item tagged "series" that itself
\* has no seriesId, it returns that overview item instead of absent.
C26_OverviewOfNoSeries ==
  (/\ query.op = "getSeriesOverview" /\ query.seriesId = None
   /\ \E i \in 1..Len(items) : Tagged(items[i]) /\ items[i].seriesId = None) =>
     /\ query.result.kind = "item"
     /\ Tagged(query.result.item)
     /\ query.result.item.seriesId = None

\* The overview of no series was asked for on a site whose second page is
\* tagged "series" and has no seriesId: that page is returned.
C26_Witness ==
  /\ Built
  /\ query.op = "getSeriesOverview" /\ query.seriesId = None
  /\ Len(items) = 2
  /\ items[1].seriesId # None
  /\ query.result = Found(items[2])

\* C27: buildGroups treats any falsy seriesId (in particular the empty
\* string) as absent: an item whose seriesId is missing or the empty string
\* is excluded from every group, and no group is keyed by the empty string.
C27_FalsySeriesIdExcluded ==
  Built =>
    /\ "" \notin DOMAIN Groups
    /\ \A i \in 1..Len(items) :
         (items[i].seriesId = None \/ items[i].seriesId = Some("")) =>
           \A k \in DOMAIN Groups : Occurrences(Groups[k], items[i]) = 0

\* A build of an item whose seriesId is the empty string and that has no
\* tags, next to a member of a series: the build succeeds (the tags of the
\* first are never read) and its only group holds the second.
C27_Witness ==
  /\ Built
  /\ Len(items) = 2
  /\ items[1].seriesId = Some("") /\ items[1].tags = None
  /\ Truthy(items[2].seriesId)
  /\ DOMAIN Groups = {Val(items[2].seriesId)}
  /\ Groups[Val(items[2].seriesId)] = <<items[2]>>

====
